---- MODULE Spec2Model ----
(***************************************************************************)
(* Webhook relay: the ingestion handler, the delivery attempt loop         *)
(* (attempt_delivery) and the delivery table (db.py), as a state machine.  *)
(*                                                                         *)
(* All handlers are `async def` and run on one event-loop thread.  A       *)
(* handler or coroutine runs without interruption from one `await` to the  *)
(* next, so each action below is one such stretch.  time.sleep() does not  *)
(* yield: while a coroutine is inside it the thread is held and no other   *)
(* stretch can start (ThreadBlocked).                                      *)
(***************************************************************************)
EXTENDS Integers, Sequences, FiniteSets, TLC

\* ---------------------------------------------------------------- bounds
\* Number of ingest requests accepted / destination rows created in a run.
MaxDeliveries == 2
MaxDestinations == 2

\* ------------------------------------------------------------ input sets
\* Values of the X-RapidAPI-User / X-Demo-User header; NoHeader: neither sent.
NoHeader == "-"
Headers == {"u1", NoHeader}

\* "url" of the POST /v1/destinations body, as <<scheme, rest>>; NoUrl: absent.
NoUrl == <<"", "">>
UrlInputs == {NoUrl, <<"", "a.example">>, <<"https://", "a.example">>}

\* {source} of POST /v1/ingest/{source} and its JSON body: with an "event"
\* key or without one.
Sources == {"github"}
Payload(event) == [has_event |-> TRUE, event |-> event]
NoEventPayload == [has_event |-> FALSE, event |-> ""]
Payloads == {Payload("push")}

\* Status codes the destination may answer with, and transport errors
\* (str(e) of the exception; httpx timeouts carry an empty message).
StatusCodes == {200, 299, 500}
ErrorMessages == {""}

\* ------------------------------------------------------------- constants
max_attempts == 3

\* ---------------------------------------------------------------- values
\* Python str | None.  A string is kept as the sequence of its pieces.
None == [null |-> TRUE, text |-> <<>>]
Str(pieces) == [null |-> FALSE, text |-> pieces]

\* A handler's response: status code and the delivery rows of its body.
\* NoReply: no request was answered in the step.
NoReply == [handler |-> "", header |-> "", arg |-> 0, code |-> 0, body |-> <<>>]

\* What `await client.post(...)` produces: a response or a raised exception.
Response(code) == [kind |-> "response", status_code |-> code, message |-> ""]
Raised(msg) == [kind |-> "exception", status_code |-> 0, message |-> msg]
Outcomes == {Response(c) : c \in StatusCodes} \cup {Raised(m) : m \in ErrorMessages}

VARIABLES
    USERS,          \* main.USERS: user_id -> its in-memory events list
    destinations,   \* table destinations, in created_at order
    deliveries,     \* table deliveries; row i has id i
    tasks,          \* tasks[i]: the attempt_delivery coroutine of delivery i
    received,       \* received[i]: what each POST of delivery i produced
    slept,          \* slept[i]: the arguments of the time.sleep calls of task i
    posted,         \* posted[i]: the URL of each POST made for delivery i
    reply           \* the response of the request handled in the last step,
                    \* where a specification records it

\* The program's own state and what its destination saw.
state == <<USERS, destinations, deliveries, tasks, received, slept, posted>>

vars == <<USERS, destinations, deliveries, tasks, received, slept, posted, reply>>

\* The event-loop thread is inside time.sleep of some coroutine.
ThreadBlocked == \E i \in DOMAIN tasks : tasks[i].pc = "sleep"

\* ----------------------------------------------------------------- db.py
list_destinations_db(user_id) ==
    SelectSeq(destinations, LAMBDA d : d.user_id = user_id)

\* Faulty variant: the rows are not filtered by user.
get_active_destination_url_AnyUser(user_id) ==
    LET active == SelectSeq(destinations, LAMBDA d : d.active)
    IN  IF active = <<>> THEN None ELSE Str(active[Len(active)].url)

get_active_destination_url(user_id) ==
    LET active == SelectSeq(list_destinations_db(user_id), LAMBDA d : d.active)
    IN  IF active = <<>> THEN None ELSE Str(active[Len(active)].url)

\* Faulty variant: the INSERT is never committed.
create_delivery_NoCommit(delivery) == deliveries

create_delivery(delivery) == Append(deliveries, delivery)

get_delivery(delivery_id) ==
    LET rows == SelectSeq(deliveries, LAMBDA r : r.id = delivery_id)
    IN  IF rows = <<>>
        THEN [found |-> FALSE, row |-> <<>>]
        ELSE [found |-> TRUE, row |-> rows[1]]

\* Faulty variant: UPDATE without its WHERE clause.
update_delivery_NoWhere(delivery_id, status, attempts, last_error) ==
    [i \in DOMAIN deliveries |->
        [deliveries[i] EXCEPT !.status = status,
                              !.attempts = attempts,
                              !.last_error = last_error]]

update_delivery(delivery_id, status, attempts, last_error) ==
    [i \in DOMAIN deliveries |->
        IF deliveries[i].id = delivery_id
        THEN [deliveries[i] EXCEPT !.status = status,
                                   !.attempts = attempts,
                                   !.last_error = last_error]
        ELSE deliveries[i]]

\* SQLite's comparison of two occurred_at texts "<seconds>[.<micros>]Z":
\* equal seconds, then '.' sorts before 'Z', then the six-digit fractions.
TextLess(a, b) ==
    IF a[1] # b[1] THEN a[1] < b[1]
    ELSE IF Len(a) = 2 /\ Len(b) = 2 THEN a[2] < b[2]
    ELSE Len(a) = 2 /\ Len(b) = 1

\* ORDER BY occurred_at DESC of rows; rows with equal texts stay in row order.
RECURSIVE OrderByOccurredAtDesc(_)
OrderByOccurredAtDesc(rows) ==
    IF rows = <<>> THEN <<>>
    ELSE LET last == rows[Len(rows)]
             rest == OrderByOccurredAtDesc(SubSeq(rows, 1, Len(rows) - 1))
             ahead == SelectSeq(rest, LAMBDA r : ~TextLess(r.occurred_at, last.occurred_at))
             behind == SelectSeq(rest, LAMBDA r : TextLess(r.occurred_at, last.occurred_at))
         IN  ahead \o <<last>> \o behind

\* Faulty variant: the owner filter is missing.
list_deliveries_for_user_AnyOwner(user_id, limit) ==
    LET rows == OrderByOccurredAtDesc(deliveries)
    IN  IF limit < 0 \/ limit > Len(rows) THEN rows ELSE SubSeq(rows, 1, limit)

\* SELECT ... WHERE user_id = ? ORDER BY occurred_at DESC LIMIT ?
\* (a negative LIMIT is no limit in SQLite)
list_deliveries_for_user(user_id, limit) ==
    LET rows == OrderByOccurredAtDesc(
                    SelectSeq(deliveries, LAMBDA r : r.user_id = user_id))
    IN  IF limit < 0 \/ limit > Len(rows) THEN rows ELSE SubSeq(rows, 1, limit)

\* ---------------------------------------------------------------- main.py
ensure_user(user_id) ==
    IF user_id \in DOMAIN USERS
    THEN USERS
    ELSE [u \in DOMAIN USERS \cup {user_id} |->
            IF u = user_id THEN [events |-> <<>>] ELSE USERS[u]]

\* Faulty variant: 200 itself is not counted as a success.
Is2xx_Above200(status_code) == 200 < status_code /\ status_code < 300

Is2xx(status_code) == 200 <= status_code /\ status_code < 300

\* Faulty variant: the status code is left out of the description.
FailureText_NoCode(o) ==
    IF o.kind = "response"
    THEN Str(<<"Non-2xx response">>)
    ELSE Str(<<o.message>>)

\* f"Non-2xx response: {resp.status_code}"  /  str(e)
FailureText(o) ==
    IF o.kind = "response"
    THEN Str(<<"Non-2xx response: ", ToString(o.status_code)>>)
    ELSE Str(<<o.message>>)

\* Faulty variant: the exponent is the attempt number itself.
Backoff_OneTooHigh(attempt) == 2 ^ attempt

Backoff(attempt) == 2 ^ (attempt - 1)

Init ==
    /\ USERS = <<>>
    /\ destinations = <<>>
    /\ deliveries = <<>>
    /\ tasks = <<>>
    /\ received = <<>>
    /\ slept = <<>>
    /\ posted = <<>>
    /\ reply = NoReply

\* POST /v1/destinations
create_destination(header, url) ==
    /\ ~ThreadBlocked
    /\ Len(destinations) < MaxDestinations
    /\ IF header = NoHeader
       THEN UNCHANGED <<USERS, destinations>>                      \* 401
       ELSE /\ USERS' = ensure_user(header)
            /\ IF url = NoUrl
               THEN UNCHANGED destinations                          \* 400
               ELSE destinations' = Append(destinations,
                       [user_id |-> header,
                        url |-> IF url[1] \in {"http://", "https://"}
                                THEN url ELSE <<"https://", url[2]>>,
                        active |-> TRUE])
    /\ UNCHANGED <<deliveries, tasks, received, slept, posted>>

\* The response of the create_destination handler.
create_destination_response(header, url) ==
    [handler |-> "create_destination", header |-> header, arg |-> 0,
     code |-> IF header = NoHeader THEN 401 ELSE IF url = NoUrl THEN 400 ELSE 200,
     body |-> <<>>]

\* Faulty variant: the owner check is missing.
read_delivery_status_NoOwnerCheck(header, delivery_id) ==
    IF header = NoHeader THEN [code |-> 401, delivery |-> <<>>]
    ELSE LET delivery == get_delivery(delivery_id)
         IN  IF ~delivery.found THEN [code |-> 404, delivery |-> <<>>]
             ELSE [code |-> 200, delivery |-> delivery.row]

\* GET /v1/deliveries/{delivery_id}: the response of the handler
read_delivery_status(header, delivery_id) ==
    IF header = NoHeader THEN [code |-> 401, delivery |-> <<>>]
    ELSE LET delivery == get_delivery(delivery_id)
         IN  IF ~delivery.found THEN [code |-> 404, delivery |-> <<>>]
             ELSE IF delivery.row.user_id # header THEN [code |-> 403, delivery |-> <<>>]
             ELSE [code |-> 200, delivery |-> delivery.row]

ReadDelivery(header, delivery_id) ==
    /\ ~ThreadBlocked
    /\ USERS' = IF header = NoHeader THEN USERS ELSE ensure_user(header)
    /\ UNCHANGED <<destinations, deliveries, tasks, received, slept, posted>>

\* Faulty variant: the id is derived from the destination table, not fresh.
new_delivery_id_PerDestination == Len(destinations)

\* f"dly_{uuid.uuid4().hex}": an id no earlier call produced
new_delivery_id == Len(deliveries) + 1

\* datetime.utcnow().isoformat() + "Z" of a clock reading in microseconds:
\* <<seconds, microseconds>>, the fraction left out when it is zero.
isoformat(now) ==
    IF now % 1000000 = 0
    THEN <<now \div 1000000>>
    ELSE <<now \div 1000000, now % 1000000>>

\* payload.get("event", "unknown")
event_type(payload) == IF payload.has_event THEN payload.event ELSE "unknown"

\* The row the handler builds for create_delivery.
new_delivery(delivery_id, header, source, destination_url, payload, now) ==
    [id |-> delivery_id,
     user_id |-> header,
     source |-> source,
     destination_url |-> destination_url,
     event_type |-> event_type(payload),
     occurred_at |-> isoformat(now),
     status |-> "pending",
     attempts |-> 0,
     last_error |-> None]

\* POST /v1/ingest/{source}: the handler body, up to its return
ingest_webhook(header, source, payload, now) ==
    /\ ~ThreadBlocked
    /\ Len(deliveries) < MaxDeliveries
    /\ IF header = NoHeader
       THEN UNCHANGED state                                         \* 401
       ELSE LET destination_url == get_active_destination_url(header)
                known == ensure_user(header)
                delivery_id == new_delivery_id
            IN  IF destination_url.null
                THEN /\ USERS' = known                              \* 400
                     /\ UNCHANGED <<destinations, deliveries, tasks, received, slept, posted>>
                ELSE /\ USERS' = [known EXCEPT ![header].events = Append(@, delivery_id)]
                     /\ deliveries' = create_delivery(
                            new_delivery(delivery_id, header, source,
                                         destination_url.text, payload, now))
                     /\ tasks' = Append(tasks,
                            [pc |-> "scheduled",
                             delivery_id |-> delivery_id,
                             destination_url |-> destination_url.text,
                             attempt |-> 0,
                             last_error |-> None])
                     /\ received' = Append(received, <<>>)
                     /\ slept' = Append(slept, <<>>)
                     /\ posted' = Append(posted, <<>>)
                     /\ UNCHANGED destinations

\* The response of the ingest handler in the state it leaves.
ingest_response(header) ==
    IF header = NoHeader THEN [NoReply EXCEPT !.handler = "ingest", !.code = 401]
    ELSE IF get_active_destination_url(header).null
    THEN [handler |-> "ingest", header |-> header, arg |-> 0, code |-> 400, body |-> <<>>]
    ELSE [handler |-> "ingest", header |-> header, arg |-> 0, code |-> 200,
          body |-> <<deliveries'[Len(deliveries')]>>]

\* The accepted response goes out; background tasks run only after it.
SendAccepted(i) ==
    /\ ~ThreadBlocked
    /\ i \in DOMAIN tasks
    /\ tasks[i].pc = "scheduled"
    /\ tasks' = [tasks EXCEPT ![i].pc = "responded"]
    /\ UNCHANGED <<USERS, destinations, deliveries, received, slept, posted>>

\* Faulty variant: the URL is resolved again at every POST.
PostTarget_Reresolved(i) ==
    get_active_destination_url(deliveries[i].user_id).text

\* client.post(destination_url, ...): the coroutine's own argument
PostTarget(i) == tasks[i].destination_url

\* attempt_delivery starts: client opened, attempt 1 POSTed, coroutine suspended
StartLoop(i) ==
    /\ ~ThreadBlocked
    /\ i \in DOMAIN tasks
    /\ tasks[i].pc = "responded"
    /\ tasks' = [tasks EXCEPT ![i].pc = "posting", ![i].attempt = 1]
    /\ posted' = [posted EXCEPT ![i] = Append(@, PostTarget(i))]
    /\ UNCHANGED <<USERS, destinations, deliveries, received, slept>>

\* Faulty variant: a failed attempt is not written before the backoff.
AttemptOutcome_NoPendingWrite(i, o) ==
    /\ ~ThreadBlocked
    /\ i \in DOMAIN tasks
    /\ tasks[i].pc = "posting"
    /\ received' = [received EXCEPT ![i] = Append(@, o)]
    /\ IF o.kind = "response" /\ Is2xx(o.status_code)
       THEN /\ deliveries' = update_delivery(tasks[i].delivery_id, "delivered",
                                             tasks[i].attempt, None)
            /\ tasks' = [tasks EXCEPT ![i].pc = "done"]
            /\ UNCHANGED slept
       ELSE /\ UNCHANGED deliveries
            /\ tasks' = [tasks EXCEPT ![i].pc = "sleep",
                                      ![i].last_error = FailureText(o)]
            /\ slept' = [slept EXCEPT ![i] = Append(@, Backoff(tasks[i].attempt))]
    /\ UNCHANGED <<USERS, destinations, posted>>

\* Faulty variant: the loop counts from 0 (range(max_attempts)) and writes
\* its counter.
AttemptOutcome_ZeroBased(i, o) ==
    /\ ~ThreadBlocked
    /\ i \in DOMAIN tasks
    /\ tasks[i].pc = "posting"
    /\ received' = [received EXCEPT ![i] = Append(@, o)]
    /\ IF o.kind = "response" /\ Is2xx(o.status_code)
       THEN /\ deliveries' = update_delivery(tasks[i].delivery_id, "delivered",
                                             tasks[i].attempt - 1, None)
            /\ tasks' = [tasks EXCEPT ![i].pc = "done"]
            /\ UNCHANGED slept
       ELSE /\ deliveries' = update_delivery(tasks[i].delivery_id, "pending",
                                             tasks[i].attempt - 1, FailureText(o))
            /\ tasks' = [tasks EXCEPT ![i].pc = "sleep",
                                      ![i].last_error = FailureText(o)]
            /\ slept' = [slept EXCEPT ![i] = Append(@, Backoff(tasks[i].attempt))]
    /\ UNCHANGED <<USERS, destinations, posted>>

\* Faulty variant: the success write passes the loop's last_error, not None.
AttemptOutcome_KeepsError(i, o) ==
    /\ ~ThreadBlocked
    /\ i \in DOMAIN tasks
    /\ tasks[i].pc = "posting"
    /\ received' = [received EXCEPT ![i] = Append(@, o)]
    /\ IF o.kind = "response" /\ Is2xx(o.status_code)
       THEN /\ deliveries' = update_delivery(tasks[i].delivery_id, "delivered",
                                             tasks[i].attempt, tasks[i].last_error)
            /\ tasks' = [tasks EXCEPT ![i].pc = "done"]
            /\ UNCHANGED slept
       ELSE /\ deliveries' = update_delivery(tasks[i].delivery_id, "pending",
                                             tasks[i].attempt, FailureText(o))
            /\ tasks' = [tasks EXCEPT ![i].pc = "sleep",
                                      ![i].last_error = FailureText(o)]
            /\ slept' = [slept EXCEPT ![i] = Append(@, Backoff(tasks[i].attempt))]
    /\ UNCHANGED <<USERS, destinations, posted>>

\* `await client.post` completes with outcome o; the coroutine runs on to its
\* next suspension: the return, or the time.sleep call.
AttemptOutcome(i, o) ==
    /\ ~ThreadBlocked
    /\ i \in DOMAIN tasks
    /\ tasks[i].pc = "posting"
    /\ received' = [received EXCEPT ![i] = Append(@, o)]
    /\ IF o.kind = "response" /\ Is2xx(o.status_code)
       THEN /\ deliveries' = update_delivery(tasks[i].delivery_id, "delivered",
                                             tasks[i].attempt, None)
            /\ tasks' = [tasks EXCEPT ![i].pc = "done"]
            /\ UNCHANGED slept
       ELSE /\ deliveries' = update_delivery(tasks[i].delivery_id, "pending",
                                             tasks[i].attempt, FailureText(o))
            /\ tasks' = [tasks EXCEPT ![i].pc = "sleep",
                                      ![i].last_error = FailureText(o)]
            /\ slept' = [slept EXCEPT ![i] = Append(@, Backoff(tasks[i].attempt))]
    /\ UNCHANGED <<USERS, destinations, posted>>

\* Faulty variant: range(1, max_attempts + 2), one iteration too many.
Wake_ExtraAttempt(i) ==
    /\ i \in DOMAIN tasks
    /\ tasks[i].pc = "sleep"
    /\ IF tasks[i].attempt < max_attempts + 1
       THEN /\ tasks' = [tasks EXCEPT ![i].pc = "posting", ![i].attempt = @ + 1]
            /\ posted' = [posted EXCEPT ![i] = Append(@, PostTarget(i))]
       ELSE /\ tasks' = [tasks EXCEPT ![i].pc = "closing"]
            /\ UNCHANGED posted
    /\ UNCHANGED <<USERS, destinations, deliveries, received, slept>>

\* time.sleep returns: next iteration of the for loop, or the loop is over
\* and the coroutine awaits the client's close.
Wake(i) ==
    /\ i \in DOMAIN tasks
    /\ tasks[i].pc = "sleep"
    /\ IF tasks[i].attempt < max_attempts
       THEN /\ tasks' = [tasks EXCEPT ![i].pc = "posting", ![i].attempt = @ + 1]
            /\ posted' = [posted EXCEPT ![i] = Append(@, PostTarget(i))]
       ELSE /\ tasks' = [tasks EXCEPT ![i].pc = "closing"]
            /\ UNCHANGED posted
    /\ UNCHANGED <<USERS, destinations, deliveries, received, slept>>

\* Faulty variant: the final write passes attempts=0.
WriteFailed_LosesCount(i) ==
    /\ ~ThreadBlocked
    /\ i \in DOMAIN tasks
    /\ tasks[i].pc = "closing"
    /\ deliveries' = update_delivery(tasks[i].delivery_id, "failed",
                                     0, tasks[i].last_error)
    /\ tasks' = [tasks EXCEPT ![i].pc = "done"]
    /\ UNCHANGED <<USERS, destinations, received, slept, posted>>

\* Faulty variant: the coroutine returns without the final write.
WriteFailed_Skipped(i) ==
    /\ ~ThreadBlocked
    /\ i \in DOMAIN tasks
    /\ tasks[i].pc = "closing"
    /\ tasks' = [tasks EXCEPT ![i].pc = "done"]
    /\ UNCHANGED <<USERS, destinations, deliveries, received, slept, posted>>

\* after the `async with` block: all attempts failed
WriteFailed(i) ==
    /\ ~ThreadBlocked
    /\ i \in DOMAIN tasks
    /\ tasks[i].pc = "closing"
    /\ deliveries' = update_delivery(tasks[i].delivery_id, "failed",
                                     max_attempts, tasks[i].last_error)
    /\ tasks' = [tasks EXCEPT ![i].pc = "done"]
    /\ UNCHANGED <<USERS, destinations, received, slept, posted>>

attempt_delivery(i) ==
    \/ StartLoop(i)
    \/ \E o \in Outcomes : AttemptOutcome(i, o)
    \/ Wake(i)
    \/ WriteFailed(i)

\* str(e) of the sqlite3 error an update_delivery call raises.
StoreErrorMessage == "database is locked"

\* AttemptOutcome when the next `raising` (1 or 2) calls of update_delivery
\* raise instead of committing.  A call inside the try body that raises is
\* caught by `except Exception`, whose own update_delivery call is the next
\* one; an exception raised there leaves the coroutine (pc "raised").
AttemptOutcomeStoreFault(i, o, raising) ==
    /\ ~ThreadBlocked
    /\ i \in DOMAIN tasks
    /\ tasks[i].pc = "posting"
    /\ received' = [received EXCEPT ![i] = Append(@, o)]
    /\ LET caught == IF o.kind = "response"
                     THEN Str(<<StoreErrorMessage>>)    \* the try body's write raised
                     ELSE FailureText(o)               \* client.post raised
           handlerRaises == IF o.kind = "response" THEN raising = 2 ELSE TRUE
       IN  IF handlerRaises
           THEN /\ tasks' = [tasks EXCEPT ![i].pc = "raised", ![i].last_error = caught]
                /\ UNCHANGED <<deliveries, slept>>
           ELSE /\ deliveries' = update_delivery(tasks[i].delivery_id, "pending",
                                                 tasks[i].attempt, caught)
                /\ tasks' = [tasks EXCEPT ![i].pc = "sleep", ![i].last_error = caught]
                /\ slept' = [slept EXCEPT ![i] = Append(@, Backoff(tasks[i].attempt))]
    /\ UNCHANGED <<USERS, destinations, posted>>

\* WriteFailed when its update_delivery call raises: it is outside any try.
WriteFailedStoreFault(i) ==
    /\ ~ThreadBlocked
    /\ i \in DOMAIN tasks
    /\ tasks[i].pc = "closing"
    /\ tasks' = [tasks EXCEPT ![i].pc = "raised"]
    /\ UNCHANGED <<USERS, destinations, deliveries, received, slept, posted>>

\* GET /v1/deliveries?limit=N: the response of the handler
list_deliveries(header, limit) ==
    IF header = NoHeader
    THEN [handler |-> "list", header |-> header, arg |-> limit, code |-> 401, body |-> <<>>]
    ELSE [handler |-> "list", header |-> header, arg |-> limit, code |-> 200,
          body |-> list_deliveries_for_user(header, limit)]

ListDeliveries(header, limit) ==
    /\ ~ThreadBlocked
    /\ USERS' = IF header = NoHeader THEN USERS ELSE ensure_user(header)
    /\ UNCHANGED <<destinations, deliveries, tasks, received, slept, posted>>

\* The response of read_delivery_status, as a recorded reply.
read_reply(header, delivery_id) ==
    LET r == read_delivery_status(header, delivery_id)
    IN  [handler |-> "read", header |-> header, arg |-> delivery_id, code |-> r.code,
         body |-> IF r.code = 200 THEN <<r.delivery>> ELSE <<>>]

\* The clock reading of the next ingest: each one a microsecond later.
NextTick == 2000000 + Len(deliveries)

\* The delivery engine under one user; responses are not recorded.
Next ==
    \/ \E h \in Headers, url \in UrlInputs :
           create_destination(h, url) /\ UNCHANGED reply
    \/ \E h \in Headers, src \in Sources, p \in Payloads :
           ingest_webhook(h, src, p, NextTick) /\ UNCHANGED reply
    \/ \E h \in Headers, d \in 1..MaxDeliveries :
           ReadDelivery(h, d) /\ UNCHANGED reply
    \/ \E i \in 1..MaxDeliveries : SendAccepted(i) /\ UNCHANGED reply
    \/ \E i \in 1..MaxDeliveries : StartLoop(i) /\ UNCHANGED reply
    \/ \E i \in 1..MaxDeliveries, o \in Outcomes :
           AttemptOutcome(i, o) /\ UNCHANGED reply
    \/ \E i \in 1..MaxDeliveries : Wake(i) /\ UNCHANGED reply
    \/ \E i \in 1..MaxDeliveries : WriteFailed(i) /\ UNCHANGED reply

Spec == Init /\ [][Next]_vars

\* The steps of the delivery loops, the destination answering from `outcomes`;
\* r is the reply recorded for such a step.
LoopSteps(outcomes, r) ==
    \/ \E i \in 1..MaxDeliveries : SendAccepted(i) /\ reply' = r
    \/ \E i \in 1..MaxDeliveries : StartLoop(i) /\ reply' = r
    \/ \E i \in 1..MaxDeliveries, o \in outcomes : AttemptOutcome(i, o) /\ reply' = r
    \/ \E i \in 1..MaxDeliveries : Wake(i) /\ reply' = r
    \/ \E i \in 1..MaxDeliveries : WriteFailed(i) /\ reply' = r

\* Wider input sets for the specifications below.
TwoUsers == {"u1", "u2"}
TwoUrls == {<<"", "a.example">>, <<"http://", "b.example">>}
OneUrl == {NoUrl, <<"", "a.example">>}
TwoTimes == {1999999, 2000000}
Limits == {-1, 1, 20}
TwoOutcomes == {Response(200), Response(500)}

\* Two owners, each free to register either URL while loops are in flight;
\* the destination answers 200 or 500.  Responses are not recorded.
OwnersNext ==
    \/ \E h \in TwoUsers, url \in TwoUrls :
           create_destination(h, url) /\ UNCHANGED reply
    \/ \E h \in TwoUsers, src \in Sources :
           ingest_webhook(h, src, NoEventPayload, NextTick) /\ UNCHANGED reply
    \/ \E h \in TwoUsers, d \in 1..MaxDeliveries :
           ReadDelivery(h, d) /\ UNCHANGED reply
    \/ \E i \in 1..MaxDeliveries : SendAccepted(i) /\ UNCHANGED reply
    \/ \E i \in 1..MaxDeliveries : StartLoop(i) /\ UNCHANGED reply
    \/ \E i \in 1..MaxDeliveries, o \in TwoOutcomes :
           AttemptOutcome(i, o) /\ UNCHANGED reply
    \/ \E i \in 1..MaxDeliveries : Wake(i) /\ UNCHANGED reply
    \/ \E i \in 1..MaxDeliveries : WriteFailed(i) /\ UNCHANGED reply

OwnersSpec == Init /\ [][OwnersNext]_vars

\* Two callers and one URL, with the response of every create, ingest and
\* status-read request recorded in `reply` (a loop step answers no request).
ApiNext ==
    \/ \E h \in TwoUsers, url \in OneUrl :
           create_destination(h, url) /\ reply' = create_destination_response(h, url)
    \/ \E h \in TwoUsers, src \in Sources :
           ingest_webhook(h, src, NoEventPayload, NextTick) /\ reply' = ingest_response(h)
    \/ \E h \in TwoUsers, d \in 1..MaxDeliveries + 1 :
           ReadDelivery(h, d) /\ reply' = read_reply(h, d)
    \/ LoopSteps(TwoOutcomes, NoReply)

ApiSpec == Init /\ [][ApiNext]_vars

\* As ApiSpec, with ingests at either of two clock readings and the list
\* requests' responses recorded too; the destination answers 500.
ListNext ==
    \/ \E h \in TwoUsers, url \in OneUrl :
           create_destination(h, url) /\ reply' = create_destination_response(h, url)
    \/ \E h \in TwoUsers, src \in Sources, now \in TwoTimes :
           ingest_webhook(h, src, NoEventPayload, now) /\ reply' = ingest_response(h)
    \/ \E h \in TwoUsers, limit \in Limits :
           ListDeliveries(h, limit) /\ reply' = list_deliveries(h, limit)
    \/ LoopSteps({Response(500)}, NoReply)

ListSpec == Init /\ [][ListNext]_vars

\* The delivery engine of Spec over a record store whose UPDATE may raise.
FaultNext ==
    \/ Next
    \/ \E i \in 1..MaxDeliveries, o \in Outcomes, raising \in 1..2 :
           AttemptOutcomeStoreFault(i, o, raising) /\ UNCHANGED reply
    \/ \E i \in 1..MaxDeliveries : WriteFailedStoreFault(i) /\ UNCHANGED reply

FaultSpec == Init /\ [][FaultNext]_vars

\* Fairness for the liveness claim: the process keeps running, a scheduled
\* background task is eventually run, and every POST returns or fails within
\* its 10 s timeout (httpx.AsyncClient(timeout=10.0)).
LiveSpec ==
    /\ Spec
    /\ \A i \in 1..MaxDeliveries : WF_vars(SendAccepted(i) /\ UNCHANGED reply)
    /\ \A i \in 1..MaxDeliveries : WF_vars(attempt_delivery(i) /\ UNCHANGED reply)

\* ------------------------------------------------------------------ claims
Terminal == {"delivered", "failed"}

\* An attempt that received a status code in [200, 300).
Got2xx(o) == o.kind = "response" /\ o.status_code \in 200..299

\* The attempts of delivery i that received a 2xx.
Successes(i) == {k \in 1..Len(received[i]) : Got2xx(received[i][k])}

Finished(i) == i \in DOMAIN tasks /\ tasks[i].pc = "done"

\* C1: in every reachable state every delivery row has 0 <= attempts <= 3.
C1_AttemptsWithinBudget ==
    \A i \in DOMAIN deliveries :
        deliveries[i].attempts >= 0 /\ deliveries[i].attempts <= 3

C1_Witness ==
    \E i \in DOMAIN deliveries :
        deliveries[i].attempts = 3 /\ Len(received[i]) = 3

\* C2: once attempt_delivery has finished, at most 3 attempts were made, the
\* row is delivered iff some attempt received a 2xx, and then attempts is the
\* number of the first attempt that received one.
C2_DeliveredIffGot2xx ==
    \A i \in DOMAIN tasks :
        Finished(i) =>
            /\ i \in DOMAIN deliveries
            /\ Len(received[i]) <= 3
            /\ (deliveries[i].status = "delivered") <=> (Successes(i) # {})
            /\ Successes(i) # {} =>
                   /\ deliveries[i].attempts \in Successes(i)
                   /\ \A k \in Successes(i) : deliveries[i].attempts <= k

\* 500, 500, 200 ends delivered with attempts = 3.
C2_Witness ==
    \E i \in DOMAIN tasks :
        /\ Finished(i)
        /\ received[i] = <<Response(500), Response(500), Response(200)>>
        /\ deliveries[i].status = "delivered"
        /\ deliveries[i].attempts = 3

C4_PendingBelowBudget ==
    \A i \in DOMAIN deliveries :
        deliveries[i].status = "pending" => deliveries[i].attempts < 3

\* C5: a delivered row has last_error = null and the most recent attempt made
\* for it received a 2xx.
C5_DeliveredHasNoError ==
    \A i \in DOMAIN deliveries :
        deliveries[i].status = "delivered" =>
            /\ deliveries[i].last_error = None
            /\ received[i] # <<>>
            /\ Got2xx(received[i][Len(received[i])])

\* delivered after an earlier attempt failed (which had written a last_error)
C5_Witness ==
    \E i \in DOMAIN deliveries :
        /\ deliveries[i].status = "delivered"
        /\ Len(received[i]) >= 2
        /\ ~Got2xx(received[i][1])

\* C6: once a row is delivered or failed, no step changes its status,
\* attempts or last_error, and no further POST is made or answered for it.
C6_TerminalIsFinal ==
    [][\A i \in DOMAIN deliveries :
          deliveries[i].status \in Terminal =>
              /\ deliveries'[i] = deliveries[i]
              /\ received'[i] = received[i]
              /\ tasks'[i].pc # "posting"]_vars

\* a terminal row while another delivery's loop is still making attempts
C6_Witness ==
    \E i, j \in DOMAIN deliveries :
        /\ deliveries[i].status \in Terminal
        /\ tasks[j].pc = "posting"
        /\ deliveries[j].attempts > 0

\* C7: under LiveSpec every created delivery row eventually becomes
\* delivered or failed.
C7_EventuallyTerminal ==
    \A i \in 1..MaxDeliveries :
        (i \in DOMAIN deliveries)
            ~> (i \in DOMAIN deliveries /\ deliveries[i].status \in Terminal)

C7_Witness ==
    \E i \in DOMAIN deliveries :
        /\ Finished(i)
        /\ deliveries[i].status \in Terminal
        /\ Len(slept[i]) > 0

\* C8: the loop never waits after the final (third) attempt, nor after an
\* attempt that succeeded: a coroutine inside time.sleep has made fewer than
\* 3 attempts and its last attempt did not receive a 2xx.
C8_NoBackoffAfterFinalAttempt ==
    \A i \in DOMAIN tasks :
        tasks[i].pc = "sleep" =>
            /\ tasks[i].attempt < 3
            /\ ~Got2xx(received[i][Len(received[i])])

\* C9: while one delivery loop is inside its backoff wait, every other loop
\* whose POST is in flight can take its next step, and a status read can be
\* served.
C9_BackoffDoesNotStallOthers ==
    \A i \in DOMAIN tasks :
        tasks[i].pc = "sleep" =>
            /\ \A j \in DOMAIN tasks :
                   (j # i /\ tasks[j].pc = "posting") =>
                       ENABLED (\E o \in Outcomes : AttemptOutcome(j, o) /\ UNCHANGED reply)
            /\ ENABLED (\E h \in Headers, d \in 1..MaxDeliveries :
                            ReadDelivery(h, d) /\ UNCHANGED reply)

\* C10: until the accepted response has been sent, and until the first POST of
\* the loop is made, the row exists as pending / 0 / null; the response is
\* sent with no attempt made, let alone completed.
C10_PersistedBeforeAccepted ==
    \A i \in DOMAIN tasks :
        /\ i \in DOMAIN deliveries
        /\ deliveries[i].id = tasks[i].delivery_id
        /\ tasks[i].pc \in {"scheduled", "responded"} =>
               /\ deliveries[i].status = "pending"
               /\ deliveries[i].attempts = 0
               /\ deliveries[i].last_error = None
               /\ received[i] = <<>>
        /\ tasks[i].pc = "scheduled" => tasks[i].attempt = 0

\* the accepted response sent, the row pending / 0 / null, no attempt made
C10_Witness ==
    \E i \in DOMAIN tasks :
        /\ tasks[i].pc = "responded"
        /\ deliveries[i].status = "pending"
        /\ deliveries[i].attempts = 0
        /\ received[i] = <<>>

\* The destinations registered for a caller that are still active.
ActiveOf(header) ==
    {k \in DOMAIN destinations :
        destinations[k].user_id = header /\ destinations[k].active}

\* C11: an ingest step for a caller with no active destination answers 400 and
\* leaves the delivery rows and the scheduled loops as they were.
C11_NoDestinationRejected ==
    [][(reply'.handler = "ingest" /\ ActiveOf(reply'.header) = {}) =>
           /\ reply'.code = 400
           /\ deliveries' = deliveries
           /\ tasks' = tasks
           /\ posted' = posted]_vars

\* a caller without destination was answered 400 while another caller's row
\* and loop exist
C11_Witness ==
    /\ reply.handler = "ingest"
    /\ reply.code = 400
    /\ ActiveOf(reply.header) = {}
    /\ Len(deliveries) = 1
    /\ Len(tasks) = 1

\* C12: per delivery at most one POST is unanswered, and while attempt N+1 is
\* in flight the row already holds the write made for attempt N: pending,
\* attempts = N and the failure of attempt N.
C12_AttemptsSequential ==
    \A i \in DOMAIN tasks :
        /\ Len(posted[i]) - Len(received[i]) \in {0, 1}
        /\ (Len(posted[i]) - Len(received[i]) = 1) <=> (tasks[i].pc = "posting")
        /\ Len(posted[i]) >= 2 => deliveries[i].attempts >= Len(posted[i]) - 1
        /\ (tasks[i].pc = "posting" /\ Len(posted[i]) >= 2) =>
               /\ deliveries[i].status = "pending"
               /\ deliveries[i].attempts = Len(posted[i]) - 1
               /\ deliveries[i].last_error # None

\* attempt 2 is in flight and the row records attempt 1
C12_Witness ==
    \E i \in DOMAIN tasks :
        /\ Len(posted[i]) = 2
        /\ Len(received[i]) = 1
        /\ deliveries[i].status = "pending"
        /\ deliveries[i].attempts = 1

\* The delivery state of a row.
Progress(row) == <<row.status, row.attempts, row.last_error>>

\* C13: delivery ids are pairwise distinct, the k-th loop is the only loop
\* scheduled with the k-th row's id, and a step changes the delivery state of
\* a row only if it is a step of that row's loop and of no other loop.
C13_OneLoopPerRecord ==
    /\ [](/\ Len(tasks) = Len(deliveries)
          /\ \A i, j \in DOMAIN deliveries :
                 /\ deliveries[i].id = deliveries[j].id => i = j
                 /\ tasks[i].delivery_id = deliveries[j].id <=> i = j)
    /\ [][\A j \in DOMAIN deliveries :
              Progress(deliveries'[j]) # Progress(deliveries[j]) =>
                  /\ tasks'[j] # tasks[j]
                  /\ \A i \in DOMAIN tasks \ {j} : tasks'[i] = tasks[i]]_vars

\* two rows of one owner, one delivered and the other failed
C13_Witness ==
    /\ Len(deliveries) = 2
    /\ deliveries[1].user_id = deliveries[2].user_id
    /\ deliveries[1].id # deliveries[2].id
    /\ deliveries[1].status = "delivered"
    /\ deliveries[2].status = "failed"

\* The rows with a given id.
RowsWithId(delivery_id) ==
    {i \in DOMAIN deliveries : deliveries[i].id = delivery_id}

\* C14: a read of an id with no row answers 404, a read of another owner's row
\* answers 403, and a row is returned only with 200, only if it is the row of
\* that id, and only to its owner.
C14_ReadOnlyOwnRecord ==
    (reply.handler = "read" /\ reply.header # NoHeader) =>
        /\ RowsWithId(reply.arg) = {} => reply.code = 404
        /\ (\E i \in RowsWithId(reply.arg) : deliveries[i].user_id # reply.header)
               => reply.code = 403
        /\ reply.body # <<>> =>
               /\ reply.code = 200
               /\ \E i \in RowsWithId(reply.arg) : reply.body = <<deliveries[i]>>
               /\ reply.body[1].user_id = reply.header

\* a read of another owner's row was answered 403
C14_Witness ==
    /\ reply.handler = "read"
    /\ reply.code = 403
    /\ \E i \in RowsWithId(reply.arg) : deliveries[i].user_id # reply.header

\* C15: a list answers with rows of the caller only, ordered by occurred_at
\* most recent first, and with at most `limit` rows, whatever integer limit is
\* (no row at all for a limit below 1).
C15_ListCappedAtLimit ==
    (reply.handler = "list" /\ reply.code = 200) =>
        /\ \A k \in DOMAIN reply.body : reply.body[k].user_id = reply.header
        /\ \A k, l \in DOMAIN reply.body :
               k < l => ~TextLess(reply.body[k].occurred_at, reply.body[l].occurred_at)
        /\ Len(reply.body) <= (IF reply.arg < 0 THEN 0 ELSE reply.arg)

\* C16: attempt_delivery never ends by raising, and a loop that has ended has
\* left a terminal status in its row.
C16_LoopAbsorbsEveryFailure ==
    \A i \in DOMAIN tasks :
        /\ tasks[i].pc # "raised"
        /\ tasks[i].pc \in {"done", "raised"} => deliveries[i].status \in Terminal

\* C17: the only wait before attempt 2 is 1 second and the only wait between
\* attempts 2 and 3 is 2 seconds.
C17_BackoffPowersOfTwo ==
    \A i \in DOMAIN tasks :
        /\ tasks[i].pc = "posting" => Len(slept[i]) = Len(posted[i]) - 1
        /\ Len(posted[i]) >= 2 => slept[i][1] = 1
        /\ Len(posted[i]) >= 3 => slept[i][2] = 2

\* the third attempt posted after waits of 1 and 2 seconds
C17_Witness ==
    \E i \in DOMAIN tasks :
        /\ Len(posted[i]) = 3
        /\ tasks[i].pc = "posting"
        /\ slept[i] = <<1, 2>>

\* The fields of a row that no update may change.
Identity(row) ==
    <<row.id, row.user_id, row.source, row.destination_url, row.event_type,
      row.occurred_at>>

\* C18: no step changes a row's id, user_id, source, destination_url,
\* event_type or occurred_at, and every POST of a loop went to its row's
\* destination_url.
C18_DestinationFixedAtIngest ==
    /\ [](\A i \in DOMAIN posted :
              \A k \in DOMAIN posted[i] : posted[i][k] = deliveries[i].destination_url)
    /\ [][\A i \in DOMAIN deliveries :
              Identity(deliveries'[i]) = Identity(deliveries[i])]_vars

\* three POSTs made for a row whose owner's active destination is by now
\* another URL
C18_Witness ==
    \E i \in DOMAIN deliveries :
        /\ Len(posted[i]) = 3
        /\ get_active_destination_url(deliveries[i].user_id)
               # Str(deliveries[i].destination_url)
        /\ get_active_destination_url(deliveries[i].user_id) # None

\* C19: a row is created with attempts = 0 and no step lowers its attempts.
C19_AttemptsNeverDecrease ==
    [][/\ \A i \in DOMAIN deliveries :
              deliveries'[i].attempts >= deliveries[i].attempts
       /\ \A i \in DOMAIN deliveries' \ DOMAIN deliveries :
              deliveries'[i].attempts = 0]_vars

\* a row written as failed with the attempts of its earlier pending writes
C19_Witness ==
    \E i \in DOMAIN deliveries :
        /\ deliveries[i].status = "failed"
        /\ deliveries[i].attempts = 3
        /\ Finished(i)

\* C20: a delivery is POSTed at most 3 times, a 2xx is the answer to its last
\* POST, and every step that writes its row leaves attempts equal to the
\* number of POSTs made.
C20_PostsMatchAttempts ==
    /\ [](\A i \in DOMAIN posted :
              /\ Len(posted[i]) <= 3
              /\ \A k \in Successes(i) : Len(posted[i]) = k)
    /\ [][\A i \in DOMAIN deliveries :
              deliveries'[i] # deliveries[i] =>
                  deliveries'[i].attempts = Len(posted'[i])]_vars

\* delivered by the third of three POSTs
C20_Witness ==
    \E i \in DOMAIN deliveries :
        /\ Len(posted[i]) = 3
        /\ deliveries[i].status = "delivered"
        /\ deliveries[i].attempts = 3

====
